---- MODULE Spec2Model ----
(***************************************************************************)
(* A model of scripts/generate_ext_map.py: main() and                      *)
(* parse_swift_extensions(), the line scanner that collects                *)
(* SwiftProtobuf.MessageExtension declarations per extended type.          *)
(*                                                                         *)
(* Strings are sequences of code points, so that Python's string order     *)
(* (sorted) and the f-string that builds the qualified name are computed   *)
(* and not assumed.  A line of a Swift file is what the three regular      *)
(* expressions and the two str.count calls see of it.                      *)
(***************************************************************************)
EXTENDS Integers, Sequences, FiniteSets, TLC

VARIABLES
    pc,                 \* where the process is: start, walk, lines, returned, done, exit1
    argv_len,           \* len(sys.argv)
    isdir,              \* os.path.isdir(sys.argv[1])
    files,              \* the *.swift files under the directory
    dir,                \* the content of each file, where the directory is fixed
    walker,             \* files the rglob generator has not yielded yet
    filepath,           \* the file of the current loop iteration (0: none yet)
    current_extension,
    in_extensions_enum,
    brace_depth,
    extensions_map,     \* insertion-ordered dict: sequence of [k, v]
    result,
    stdout,
    stderr,
    exit_status,
    output_file,        \* extensions_map.json in the working directory
    lineNo,             \* lines of the open file processed so far
    line,               \* history: the line processed last
    emitted,            \* history: the pairs that line appended (none or one)
    hist,               \* history of the open file (markers and extensions seen)
    run                 \* history of the process runs on the directory

vars == <<pc, argv_len, isdir, files, dir, walker, filepath, current_extension,
          in_extensions_enum, brace_depth, extensions_map, result, stdout,
          stderr, exit_status, output_file, lineNo, line, emitted, hist, run>>

-----------------------------------------------------------------------------
(* Bounds *)

MaxLines == 3
MaxBraces == 1
MaxPairs == 1
MaxDirFiles == 3

-----------------------------------------------------------------------------
(* Strings *)

\* None, and what "if current_extension" takes for it: \w+ never captures "".
None == <<>>

\* The identifiers of the files: "Foo", "A", "a", "b", "bar", "Baz", "T"
Foo == <<70, 111, 111>>
ExtA == <<65>>
PropA == <<97>>
PropB == <<98>>
Bar == <<98, 97, 114>>
Baz == <<66, 97, 122>>
TypeT == <<84>>

ExtNames == {ExtA, Foo}

NoDecl == [prop |-> None, type |-> None]

Decls == {[prop |-> PropA, type |-> TypeT],
          [prop |-> Bar, type |-> Baz]}

\* What the patterns and the brace counts see of one line.
Lines == [ext : ExtNames \cup {None},
          marker : BOOLEAN,
          opens : 0..MaxBraces,
          closes : 0..MaxBraces,
          decl : Decls \cup {NoDecl}]

\* ".Extensions."
DotExtensionsDot == <<46, 69, 120, 116, 101, 110, 115, 105, 111, 110, 115, 46>>

\* Faulty variant: the two identifiers exchanged.
full_name_swapped(ext, property_name) == property_name \o DotExtensionsDot \o ext

full_name(ext, property_name) == ext \o DotExtensionsDot \o property_name

\* Python's str order: by code point, a proper prefix first.
RECURSIVE StrLeq(_, _)
StrLeq(a, b) ==
    IF a = <<>> THEN TRUE
    ELSE IF b = <<>> THEN FALSE
    ELSE IF a[1] < b[1] THEN TRUE
    ELSE IF a[1] > b[1] THEN FALSE
    ELSE StrLeq(Tail(a), Tail(b))

StrLess(a, b) == StrLeq(a, b) /\ a # b

RECURSIVE InsertSorted(_, _)
InsertSorted(x, s) ==
    IF s = <<>> THEN <<x>>
    ELSE IF StrLeq(x, Head(s)) THEN <<x>> \o s
    ELSE <<Head(s)>> \o InsertSorted(x, Tail(s))

\* Faulty variant: the list left in insertion order.
unsorted(s) == s

RECURSIVE sorted(_)
sorted(s) == IF s = <<>> THEN <<>> ELSE InsertSorted(Head(s), sorted(Tail(s)))

-----------------------------------------------------------------------------
(* The per-line scan *)

\* Faulty variant: the locals of the previous file kept.
KeepState(st) == st

\* The three assignments at the top of every file.
FileStart(st) == [cur |-> None, inenum |-> FALSE, depth |-> 0]

\* Faulty variant: brace_depth not reset by an extension line.
ExtensionKeepsDepth(st, l) ==
    IF l.ext # None
    THEN [st EXCEPT !.cur = l.ext, !.inenum = FALSE]
    ELSE st

ExtensionStep(st, l) ==
    IF l.ext # None
    THEN [cur |-> l.ext, inenum |-> FALSE, depth |-> 0]
    ELSE st

\* Faulty variant: the marker taken without a current extension.
MarkerStepAnyExtension(st, l) ==
    IF l.marker
    THEN [st EXCEPT !.inenum = TRUE]
    ELSE st

MarkerStep(st, l) ==
    IF st.cur # None /\ l.marker
    THEN [st EXCEPT !.inenum = TRUE]
    ELSE st

\* Faulty variant: the block closed only below depth 0.
DepthStepStrict(st, l) ==
    IF st.inenum
    THEN LET d == st.depth + l.opens - l.closes
         IN  [st EXCEPT !.depth = d, !.inenum = ~(d < 0)]
    ELSE st

DepthStep(st, l) ==
    IF st.inenum
    THEN LET d == st.depth + l.opens - l.closes
         IN  [st EXCEPT !.depth = d, !.inenum = ~(d <= 0)]
    ELSE st

DeclStep(st, l) ==
    IF st.cur # None /\ st.inenum /\ l.decl # NoDecl
    THEN << [k |-> l.decl.type, v |-> full_name(st.cur, l.decl.prop)] >>
    ELSE <<>>

\* Faulty variant: the depth test before the marker test.
ScanMarkerLast(st, l) == MarkerStep(DepthStep(ExtensionStep(st, l), l), l)

\* The parse state after the three state updates of one loop iteration.
Scan(st, l) == DepthStep(MarkerStep(ExtensionStep(st, l), l), l)

ProcessLine(st, l) ==
    LET s == Scan(st, l)
    IN  [st |-> s, out |-> DeclStep(s, l)]

\* extensions_map[extended_type].append(full_name) on a defaultdict(list)
RECURSIVE MapAppend(_, _)
MapAppend(m, p) ==
    IF m = <<>> THEN <<[k |-> p.k, v |-> <<p.v>>]>>
    ELSE IF Head(m).k = p.k
         THEN <<[k |-> p.k, v |-> Append(Head(m).v, p.v)]>> \o Tail(m)
         ELSE <<Head(m)>> \o MapAppend(Tail(m), p)

RECURSIVE MapAppendAll(_, _)
MapAppendAll(m, ps) ==
    IF ps = <<>> THEN m ELSE MapAppendAll(MapAppend(m, Head(ps)), Tail(ps))

Keys(m) == [i \in 1..Len(m) |-> m[i].k]

Lookup(m, key) == (CHOOSE i \in 1..Len(m) : m[i].k = key)

ValuesOf(m, key) == m[Lookup(m, key)].v

\* Faulty variant: the keys sorted, the lists not.
SortedResultKeysOnly(m) ==
    LET ks == sorted(Keys(m))
    IN  [i \in 1..Len(ks) |-> [k |-> ks[i], v |-> ValuesOf(m, ks[i])]]

\* result[extended_type] = sorted(...) for extended_type in sorted(keys)
SortedResult(m) ==
    LET ks == sorted(Keys(m))
    IN  [i \in 1..Len(ks) |-> [k |-> ks[i], v |-> sorted(ValuesOf(m, ks[i]))]]

-----------------------------------------------------------------------------
(* json.dumps(extensions_map, indent=2), as its sequence of tokens *)

Tok(t) == [t |-> t, s |-> <<>>]

Str(s) == [t |-> "str", s |-> s]

RECURSIVE DumpStrings(_)
DumpStrings(v) ==
    IF v = <<>> THEN <<>>
    ELSE IF Len(v) = 1 THEN <<Str(v[1])>>
    ELSE <<Str(v[1]), Tok(",")>> \o DumpStrings(Tail(v))

DumpEntry(e) == <<Str(e.k), Tok(":"), Tok("[")>> \o DumpStrings(e.v) \o <<Tok("]")>>

RECURSIVE DumpEntries(_)
DumpEntries(r) ==
    IF r = <<>> THEN <<>>
    ELSE IF Len(r) = 1 THEN DumpEntry(r[1])
    ELSE DumpEntry(r[1]) \o <<Tok(",")>> \o DumpEntries(Tail(r))

dumps(r) == <<Tok("{")>> \o DumpEntries(r) \o <<Tok("}")>>

-----------------------------------------------------------------------------
(* The process *)

BlankLine == [ext |-> None, marker |-> FALSE, opens |-> 0, closes |-> 0, decl |-> NoDecl]

NoHist == [seenExt |-> FALSE, seenMarker |-> FALSE, markerSinceExt |-> FALSE,
           lastExt |-> None, carriedOpen |-> FALSE, wasOpen |-> FALSE,
           track |-> "none", sum |-> 0, extSince |-> FALSE]

NoRun == [n |-> 1, result |-> <<>>, output |-> <<>>, map |-> <<>>, order |-> <<>>]

Absent == [exists |-> FALSE, content |-> <<>>]

Stale == [exists |-> TRUE, content |-> <<[t |-> "stale", s |-> <<>>]>>]

Msg(kind, path, body) == [kind |-> kind, path |-> path, body |-> body]

State == [cur |-> current_extension, inenum |-> in_extensions_enum, depth |-> brace_depth]

RECURSIVE NPairs(_)
NPairs(m) == IF m = <<>> THEN 0 ELSE Len(Head(m).v) + NPairs(Tail(m))

\* Faulty variant: extra arguments accepted.
ArgsOkAtLeast(n) == n >= 2

\* len(sys.argv) != 2 is fatal
ArgsOk(n) == n = 2

\* A process at its start.  The three locals of the scan do not exist before the
\* first file is opened; they are given the values a file starts with.
InitCommon ==
    /\ pc = "start"
    /\ argv_len \in 1..3
    /\ isdir \in BOOLEAN
    /\ walker = {}
    /\ filepath = 0
    /\ current_extension = None
    /\ in_extensions_enum = FALSE
    /\ brace_depth = 0
    /\ extensions_map = <<>>
    /\ result = <<>>
    /\ stdout = <<>>
    /\ stderr = <<>>
    /\ exit_status = -1
    /\ lineNo = 0
    /\ line = BlankLine
    /\ emitted = <<>>
    /\ hist = NoHist
    /\ run = NoRun

\* A directory of one file, whose content is any text: every line is any
\* combination of what the patterns and the brace counts can see.
Init ==
    /\ InitCommon
    /\ files = IF isdir THEN {1} ELSE {}
    /\ dir = <<>>
    /\ output_file = Absent

\* main() up to the call of parse_swift_extensions
Main ==
    /\ pc = "start"
    /\ IF ~ArgsOk(argv_len)
       THEN /\ stdout' = <<Msg("Usage", 0, <<>>), Msg("Example", 0, <<>>)>>
            /\ exit_status' = 1
            /\ pc' = "exit1"
            /\ UNCHANGED <<stderr, walker>>
       ELSE IF ~isdir
       THEN /\ stderr' = <<Msg("not a valid directory", 0, <<>>)>>
            /\ exit_status' = 1
            /\ pc' = "exit1"
            /\ UNCHANGED <<stdout, walker>>
       ELSE /\ stdout' = <<Msg("Scanning", 0, <<>>)>>
            /\ walker' = files
            /\ pc' = "walk"
            /\ UNCHANGED <<stderr, exit_status>>
    /\ UNCHANGED <<argv_len, isdir, files, dir, filepath, current_extension,
                   in_extensions_enum, brace_depth, extensions_map, result,
                   output_file, lineNo, line, emitted, hist, run>>

\* Faulty variant: the error ends the process.
except_abort(errs, f) ==
    [pc |-> "exit1", stderr |-> Append(errs, Msg("Error processing", f, <<>>))]

\* except Exception as e: print(..., file=sys.stderr); the for loop goes on
except_handler(errs, f) ==
    [pc |-> "walk", stderr |-> Append(errs, Msg("Error processing", f, <<>>))]

\* The order the generator yields the files in, recorded for a fixed directory.
Yielded(r, f) == IF dir = <<>> THEN r ELSE [r EXCEPT !.order = Append(r.order, f)]

\* The next file of the generator is opened and read; ok = it could be decoded.
OpenFile(f, ok) ==
    /\ pc = "walk"
    /\ f \in walker
    /\ walker' = walker \ {f}
    /\ filepath' = f
    /\ run' = Yielded(run, f)
    /\ IF ok
       THEN LET s == FileStart(State)
            IN  /\ current_extension' = s.cur
                /\ in_extensions_enum' = s.inenum
                /\ brace_depth' = s.depth
                /\ pc' = "lines"
                /\ lineNo' = 0
                /\ hist' = [NoHist EXCEPT !.carriedOpen = in_extensions_enum]
                /\ UNCHANGED stderr
       ELSE LET h == except_handler(stderr, f)
            IN  /\ pc' = h.pc
                /\ stderr' = h.stderr
                /\ UNCHANGED <<current_extension, in_extensions_enum, brace_depth,
                               lineNo, hist>>
    /\ UNCHANGED <<argv_len, isdir, files, dir, extensions_map, result, stdout,
                   exit_status, output_file, line, emitted>>

Net(l) == l.opens - l.closes

\* A marker line that opens a block: extension known, depth 0, more { than }.
OpensBlock(st, l) ==
    LET s == ExtensionStep(st, l)
    IN  l.marker /\ s.cur # None /\ s.depth = 0 /\ Net(l) > 0

NextHist(h, st, l) ==
    LET opening == OpensBlock(st, l)
        sum == IF opening THEN Net(l) ELSE h.sum + Net(l)
    IN  [seenExt |-> h.seenExt \/ l.ext # None,
         seenMarker |-> h.seenMarker \/ l.marker,
         markerSinceExt |-> IF l.ext # None THEN l.marker ELSE h.markerSinceExt \/ l.marker,
         lastExt |-> IF l.ext # None THEN l.ext ELSE h.lastExt,
         carriedOpen |-> h.carriedOpen,
         wasOpen |-> st.inenum,
         track |-> IF opening THEN "open"
                   ELSE IF h.track = "open" THEN (IF sum <= 0 THEN "closed" ELSE "open")
                   ELSE IF h.track = "closed" /\ l.marker THEN "none"
                   ELSE h.track,
         sum |-> IF opening \/ h.track = "open" THEN sum ELSE 0,
         extSince |-> IF opening THEN FALSE
                      ELSE IF h.track = "open" THEN h.extSince \/ l.ext # None
                      ELSE IF h.track = "closed" /\ ~l.marker THEN h.extSince
                      ELSE FALSE]

\* One iteration of "for line in lines", on line l
Iteration(l) ==
    /\ LET r == ProcessLine(State, l)
       IN  /\ current_extension' = r.st.cur
           /\ in_extensions_enum' = r.st.inenum
           /\ brace_depth' = r.st.depth
           /\ extensions_map' = MapAppendAll(extensions_map, r.out)
           /\ emitted' = r.out
    /\ lineNo' = lineNo + 1
    /\ line' = l
    /\ hist' = NextHist(hist, State, l)
    /\ UNCHANGED <<pc, argv_len, isdir, files, dir, walker, filepath, result, stdout,
                   stderr, exit_status, output_file, run>>

\* The next line of a file whose content is any text of at most MaxLines lines
ReadLine(l) ==
    /\ pc = "lines"
    /\ dir = <<>>
    /\ lineNo < MaxLines
    /\ NPairs(extensions_map) < MaxPairs \/ ProcessLine(State, l).out = <<>>
    /\ Iteration(l)

\* The next line of a file of the fixed directory
ReadDirLine ==
    /\ pc = "lines"
    /\ dir # <<>>
    /\ lineNo < Len(dir[filepath].lines)
    /\ Iteration(dir[filepath].lines[lineNo + 1])

\* The file's lines are exhausted (content.split gives at least one line).
EndFile ==
    /\ pc = "lines"
    /\ IF dir = <<>> THEN lineNo >= 1 ELSE lineNo = Len(dir[filepath].lines)
    /\ pc' = "walk"
    /\ lineNo' = 0
    /\ line' = BlankLine
    /\ emitted' = <<>>
    /\ hist' = NoHist
    /\ UNCHANGED <<argv_len, isdir, files, dir, walker, filepath, current_extension,
                   in_extensions_enum, brace_depth, extensions_map, result, stdout,
                   stderr, exit_status, output_file, run>>

\* The generator is exhausted: build the sorted result and return it.
Return ==
    /\ pc = "walk"
    /\ walker = {}
    /\ result' = SortedResult(extensions_map)
    /\ pc' = "returned"
    /\ UNCHANGED <<argv_len, isdir, files, dir, walker, filepath, current_extension,
                   in_extensions_enum, brace_depth, extensions_map, stdout, stderr,
                   exit_status, output_file, lineNo, line, emitted, hist, run>>

\* main() after the call: print the result, write extensions_map.json
WriteOutput ==
    /\ pc = "returned"
    /\ stdout' = stdout \o <<Msg("Results", 0, dumps(result)),
                             Msg("Output written", 0, <<>>)>>
    /\ output_file' = [exists |-> TRUE, content |-> dumps(result)]
    /\ exit_status' = 0
    /\ pc' = "done"
    /\ UNCHANGED <<argv_len, isdir, files, dir, walker, filepath, current_extension,
                   in_extensions_enum, brace_depth, extensions_map, result, stderr,
                   lineNo, line, emitted, hist, run>>

Next ==
    \/ Main
    \/ \E f \in files, ok \in BOOLEAN : OpenFile(f, ok)
    \/ \E l \in Lines : ReadLine(l)
    \/ EndFile
    \/ Return
    \/ WriteOutput

Spec == Init /\ [][Next]_vars

-----------------------------------------------------------------------------
(* The tool run twice on one fixed directory of several files *)

ExtLine(e) == [ext |-> e, marker |-> FALSE, opens |-> 1, closes |-> 0, decl |-> NoDecl]

MarkerLine == [ext |-> None, marker |-> TRUE, opens |-> 1, closes |-> 0, decl |-> NoDecl]

DeclLine(d) == [ext |-> None, marker |-> FALSE, opens |-> 0, closes |-> 0, decl |-> d]

CloseLine == [ext |-> None, marker |-> FALSE, opens |-> 0, closes |-> 1, decl |-> NoDecl]

\* extension e {  enum Extensions {  static let ...  }  }
SwiftFile(e, d) ==
    [ok |-> TRUE,
     lines |-> <<ExtLine(e), MarkerLine, DeclLine(d), CloseLine, CloseLine>>]

\* A declaration outside any extension, then a block the file ends inside of
Leaky ==
    [ok |-> TRUE,
     lines |-> <<DeclLine([prop |-> PropA, type |-> TypeT]), ExtLine(Foo), MarkerLine>>]

\* Not UTF-8
Undecodable == [ok |-> FALSE, lines |-> <<>>]

Catalogue ==
    {SwiftFile(ExtA, [prop |-> PropA, type |-> TypeT]),
     SwiftFile(ExtA, [prop |-> PropB, type |-> TypeT]),
     SwiftFile(Foo, [prop |-> Bar, type |-> Baz]),
     Leaky, Undecodable}

DirInit ==
    /\ InitCommon
    /\ \E n \in 0..MaxDirFiles : files = 1..n
    /\ (~isdir => files = {})
    /\ dir \in [files -> Catalogue]
    /\ (files = {} => dir = <<>>)
    /\ output_file \in {Absent, Stale}

\* The tool is started again, with the same arguments, on the unchanged directory.
Rerun ==
    /\ pc = "done"
    /\ run.n = 1
    /\ run' = [n |-> 2, result |-> result, output |-> output_file.content,
               map |-> extensions_map, order |-> <<>>]
    /\ pc' = "start"
    /\ walker' = {}
    /\ filepath' = 0
    /\ current_extension' = None
    /\ in_extensions_enum' = FALSE
    /\ brace_depth' = 0
    /\ extensions_map' = <<>>
    /\ result' = <<>>
    /\ stdout' = <<>>
    /\ stderr' = <<>>
    /\ exit_status' = -1
    /\ UNCHANGED <<argv_len, isdir, files, dir, output_file, lineNo, line, emitted, hist>>

DirNext ==
    \/ Main
    \/ \E f \in files : OpenFile(f, dir[f].ok)
    \/ ReadDirLine
    \/ EndFile
    \/ Return
    \/ WriteOutput
    \/ Rerun

DirSpec == DirInit /\ [][DirNext]_vars

-----------------------------------------------------------------------------
(* Properties *)

Scanning == pc = "lines" /\ lineNo >= 1

IsSorted(v) == \A j \in 1..(Len(v) - 1) : StrLeq(v[j], v[j + 1])

\* C1: the returned mapping has its keys in ascending order, without repetition,
\* and every list of qualified names in ascending order, whatever the order the
\* files and declarations were discovered in.
C1_SortedOutput ==
    pc \in {"returned", "done"} =>
        /\ Len(result) = Len(extensions_map)
        /\ \A i \in 1..(Len(result) - 1) : StrLess(result[i].k, result[i + 1].k)
        /\ \A i \in 1..Len(result) :
              /\ IsSorted(result[i].v)
              /\ Len(result[i].v) = Len(ValuesOf(extensions_map, result[i].k))

C1_Witness ==
    /\ pc = "done"
    /\ Len(result) = 2
    /\ Keys(extensions_map) # Keys(result)
    /\ \E i \in 1..Len(result) :
          /\ Len(result[i].v) = 2
          /\ ValuesOf(extensions_map, result[i].k) # result[i].v

\* C2: a pair is appended only by a line that matches the declaration pattern
\* while current_extension is set and the block is open; its key is the second
\* captured identifier and its value is "<E>.Extensions.<p>", E the identifier
\* of the most recent extension line of the file and p the first captured one.
C2_EmittedPair ==
    emitted # <<>> =>
        /\ Scanning
        /\ Len(emitted) = 1
        /\ line.decl # NoDecl
        /\ current_extension # None
        /\ in_extensions_enum
        /\ hist.lastExt = current_extension
        /\ emitted[1].k = line.decl.type
        /\ emitted[1].v = hist.lastExt \o DotExtensionsDot \o line.decl.prop
        /\ \E i \in 1..Len(extensions_map) :
              /\ extensions_map[i].k = line.decl.type
              /\ extensions_map[i].v[Len(extensions_map[i].v)] = emitted[1].v

\* {"Baz": ["Foo.Extensions.bar"]}
C2_Witness ==
    /\ pc = "done"
    /\ result = << [k |-> <<66, 97, 122>>,
                    v |-> << <<70, 111, 111, 46, 69, 120, 116, 101, 110, 115,
                               105, 111, 110, 115, 46, 98, 97, 114>> >>] >>

RECURSIVE Collect(_, _)
Collect(st, ls) ==
    IF ls = <<>> THEN <<>>
    ELSE LET r == ProcessLine(st, Head(ls))
         IN  r.out \o Collect(r.st, Tail(ls))

\* The pairs of one file parsed on its own
PairsOfFile(c) ==
    IF c.ok THEN Collect([cur |-> None, inenum |-> FALSE, depth |-> 0], c.lines) ELSE <<>>

RECURSIVE Count(_, _)
Count(ps, p) ==
    IF ps = <<>> THEN 0
    ELSE (IF Head(ps) = p THEN 1 ELSE 0) + Count(Tail(ps), p)

\* The pairs of a mapping, list after list
RECURSIVE Flat(_)
Flat(m) ==
    IF m = <<>> THEN <<>>
    ELSE [j \in 1..Len(Head(m).v) |-> [k |-> Head(m).k, v |-> Head(m).v[j]]] \o Flat(Tail(m))

\* The pairs of the files of order fs, each parsed on its own
RECURSIVE FlatFiles(_)
FlatFiles(fs) ==
    IF fs = <<>> THEN <<>> ELSE PairsOfFile(dir[Head(fs)]) \o FlatFiles(Tail(fs))

\* The mapping holds the pairs of the files, each as often as the files do.
SamePairs(m, fs) ==
    LET a == Flat(m)
        b == FlatFiles(fs)
    IN  /\ Len(a) = Len(b)
        /\ \A i \in 1..Len(b) : Count(a, b[i]) = Count(b, b[i])

Opened == {run.order[i] : i \in 1..Len(run.order)}

Failed == {f \in Opened : ~dir[f].ok}

\* C3: a file that cannot be opened, read or decoded does not abort the scan:
\* an error message names it, the pairs of the files parsed before it stay,
\* the files after it are parsed and contribute, the result is written and
\* the exit status is 0.
C3_Recoverable ==
    (dir # <<>> /\ Failed # {}) =>
        /\ pc # "exit1"
        /\ exit_status # 1
        /\ \A f \in Failed :
              \E i \in 1..Len(stderr) :
                  stderr[i].kind = "Error processing" /\ stderr[i].path = f
        /\ pc = "walk" => SamePairs(extensions_map, run.order)
        /\ pc = "done" =>
              /\ walker = {}
              /\ exit_status = 0
              /\ SamePairs(result, run.order)
              /\ output_file = [exists |-> TRUE, content |-> dumps(result)]

C3_Witness ==
    /\ pc = "done"
    /\ Len(run.order) = 3
    /\ ~dir[run.order[2]].ok
    /\ PairsOfFile(dir[run.order[1]]) # <<>>
    /\ PairsOfFile(dir[run.order[3]]) # <<>>
    /\ Len(stderr) = 1
    /\ NPairs(result) = 2

HasKind(out, kind) == \E i \in 1..Len(out) : out[i].kind = kind

\* C4: with an argument count other than one, or an argument that is no
\* directory, the run ends with exit status 1 before any scanning: no file is
\* parsed, neither "Scanning" nor "Results:" is printed, and extensions_map.json
\* is neither created nor overwritten.
C4_FatalPreconditions ==
    (pc # "start" /\ (argv_len # 2 \/ ~isdir)) =>
        /\ pc = "exit1"
        /\ exit_status = 1
        /\ ~HasKind(stdout, "Scanning")
        /\ ~HasKind(stdout, "Results")
        /\ IF argv_len # 2 THEN HasKind(stdout, "Usage")
           ELSE HasKind(stderr, "not a valid directory")
        /\ walker = {} /\ filepath = 0 /\ lineNo = 0
        /\ extensions_map = <<>> /\ result = <<>>
        /\ output_file \in {Absent, Stale}

C4_Witness ==
    /\ pc = "exit1"
    /\ argv_len = 3
    /\ isdir
    /\ files # {}
    /\ output_file = Stale

\* C5: the result depends on the files and their contents only: a second run on
\* the unchanged directory, whatever the order the files are yielded in, returns
\* the same mapping and writes the same file content.
C5_OrderIndependent ==
    (run.n = 2 /\ pc \in {"returned", "done"}) =>
        /\ result = run.result
        /\ pc = "done" => output_file.content = run.output

C5_Witness ==
    /\ run.n = 2
    /\ pc = "done"
    /\ extensions_map # run.map
    /\ Keys(extensions_map) # Keys(run.map)
    /\ Len(result) = 2

\* C6: before the first line of every file current_extension is unset, the block
\* is closed and brace_depth is 0, whatever the previous file left; hence a pair
\* is emitted only after an extension line and a marker line of the same file.
C6_ResetPerFile ==
    /\ (pc = "lines" /\ lineNo = 0) =>
          /\ current_extension = None
          /\ ~in_extensions_enum
          /\ brace_depth = 0
    /\ emitted # <<>> => hist.seenExt /\ hist.seenMarker

C6_Witness ==
    /\ pc = "lines"
    /\ lineNo = 0
    /\ hist.carriedOpen
    /\ Len(run.order) = 3
    /\ ~dir[run.order[2]].ok

MarkerNoBrace == Scanning /\ line.marker /\ line.opens = 0 /\ current_extension # None

C8_OpenWhileSumPositive ==
    Scanning =>
        /\ hist.track = "open" => in_extensions_enum
        /\ hist.track = "closed" => ~in_extensions_enum /\ emitted = <<>>

\* C8, amended: the same, for as long as no following line matches the extension
\* pattern (such a line closes the block whatever the sum).
C8_OpenUntilExtension ==
    Scanning =>
        /\ (hist.track = "open" /\ ~hist.extSince) =>
              in_extensions_enum /\ brace_depth = hist.sum
        /\ hist.track = "closed" => ~in_extensions_enum /\ emitted = <<>>

C8_Witness ==
    /\ Scanning
    /\ hist.track = "closed"
    /\ ~hist.extSince
    /\ hist.wasOpen
    /\ line.decl # NoDecl
    /\ extensions_map # <<>>

\* C9: an extension line sets current_extension and closes the block with depth
\* 0 whatever was open (a marker on the same line then counts from 0); after it
\* nothing is emitted before a marker line, and what is emitted carries the
\* newest extension name.
C9_ExtensionResets ==
    Scanning =>
        /\ line.ext # None =>
              /\ current_extension = line.ext
              /\ IF line.marker
                 THEN brace_depth = Net(line) /\ in_extensions_enum = (Net(line) > 0)
                 ELSE brace_depth = 0 /\ ~in_extensions_enum
        /\ emitted # <<>> =>
              /\ hist.markerSinceExt
              /\ SubSeq(emitted[1].v, 1, Len(hist.lastExt) + 1) = hist.lastExt \o <<46>>

C9_Witness ==
    /\ Scanning
    /\ line.ext # None
    /\ hist.wasOpen
    /\ line.decl # NoDecl
    /\ ~line.marker
    /\ line.opens > 0
    /\ emitted = <<>>

\* C10, as claimed: an open block has an extension and a positive depth, and a
\* closed block has depth 0.
C10_DepthZeroWhenClosed ==
    /\ in_extensions_enum => current_extension # None /\ brace_depth > 0
    /\ ~in_extensions_enum => brace_depth = 0

\* C10, amended: an open block has an extension and a positive depth; a closed
\* block has a depth that is not positive (the depth that closed it is kept).
C10_DepthNotPositiveWhenClosed ==
    /\ in_extensions_enum => current_extension # None /\ brace_depth > 0
    /\ ~in_extensions_enum => brace_depth <= 0

C10_Witness ==
    /\ Scanning
    /\ ~in_extensions_enum
    /\ brace_depth < 0
    /\ hist.wasOpen

====
